---------------------------- MODULE Spec2Model ----------------------------
(***************************************************************************)
(* Pick the Round (golf/game.js): the seeded generator, the Fisher-Yates  *)
(* shuffle, the puzzle builder, the CSV filter and the game session.      *)
(*                                                                         *)
(* Conventions.                                                            *)
(*  - A JS string is a sequence of one-character strings, so that trim,   *)
(*    toLowerCase and parseInt are computed character by character.       *)
(*  - A 32-bit word is a record [hi, lo] of two 16-bit halves: the model  *)
(*    checker's integers are 32-bit signed, Math.imul and >>> 0 are not.  *)
(*  - A JS array index i is the sequence index i + 1.                     *)
(*  - An object reference is the position of the object in the array that *)
(*    first held it: a bucket holds positions of rows, so that two rows   *)
(*    with equal fields stay two rows.                                    *)
(***************************************************************************)
EXTENDS Integers, Sequences, FiniteSets

VARIABLES
  sh,      \* shuffleWithRng in progress: arr, out, i, rng
  b,       \* buildPuzzle in progress: pc, locals, result
  hist,    \* completed buildPuzzle calls: <<seed, outcome>>
  ld,      \* loadData: the parsed CSV rows and the rows handed on
  state,   \* game.js `state`: puzzle, picks, seed
  loads,   \* loadData() promises in flight, each with initGame's `seed`
  dom,     \* the grid, the scorebug and the results modal
  clock    \* Date.now(), and the number of initGame calls so far

shuffleVars == <<sh>>
buildVars   == <<b, hist>>
loadVars    == <<ld>>
gameVars    == <<state, loads, dom, clock>>
vars        == <<sh, b, hist, ld, state, loads, dom, clock>>

(***************************************************************************)
(* Program constants.                                                      *)
(***************************************************************************)
PAR_4_ROUNDS     == 288
GOLFERS_PER_GAME == 4
CARDS_PER_GOLFER == 4
MIN_YEAR         == 2020
MAX_YEAR         == 2025

(***************************************************************************)
(* Bounds of the model.                                                    *)
(***************************************************************************)
MaxShuffleLen == 4    \* longest array handed to shuffleWithRng on its own
MaxPlayers    == 5    \* most distinct players in the rows of one build
MaxCalls      == 2    \* buildPuzzle calls in one behaviour
MaxCsvRows    == 3    \* most lines after the header of a CSV text
MaxGames      == 3    \* initGame calls in one behaviour, the first included

\* undefined among strings: a sequence that is no string of characters
UNDEFINED == <<"undefined">>

(***************************************************************************)
(* 32-bit arithmetic on [hi, lo].                                          *)
(***************************************************************************)
H == 2^16

RECURSIVE BitXor(_, _)
BitXor(x, y) ==
  IF x = 0 THEN y
  ELSE IF y = 0 THEN x
  ELSE ((x + y) % 2) + 2 * BitXor(x \div 2, y \div 2)

RECURSIVE BitOr(_, _)
BitOr(x, y) ==
  IF x = 0 THEN y
  ELSE IF y = 0 THEN x
  ELSE (IF x % 2 = 1 \/ y % 2 = 1 THEN 1 ELSE 0) + 2 * BitOr(x \div 2, y \div 2)

\* ToUint32 of an integer the checker can hold
ToUint32(n) == [hi |-> (n \div H) % H, lo |-> n % H]

XorW(x, y) == [hi |-> BitXor(x.hi, y.hi), lo |-> BitXor(x.lo, y.lo)]
OrW(x, y)  == [hi |-> BitOr(x.hi, y.hi), lo |-> BitOr(x.lo, y.lo)]
AddW(x, y) ==
  LET l == x.lo + y.lo
  IN  [hi |-> (x.hi + y.hi + (l \div H)) % H, lo |-> l % H]

\* x >>> n, 0 < n < 16
ShrW(x, n) ==
  [hi |-> x.hi \div (2^n), lo |-> ((x.hi % (2^n)) * (2^(16 - n))) + (x.lo \div (2^n))]

\* the 32-bit product of two 16-bit halves, no intermediate above 2^31
Mul16(x, y) ==
  LET p0  == (x % 256) * y
      p1  == (x \div 256) * y
      mid == ((p1 % 256) * 256) + p0
  IN  [hi |-> (p1 \div 256) + (mid \div H), lo |-> mid % H]

\* Math.imul: the low 32 bits of the product
imul(x, y) ==
  LET ll == Mul16(x.lo, y.lo)
  IN  [hi |-> (ll.hi + Mul16(x.hi, y.lo).lo + Mul16(x.lo, y.hi).lo) % H,
       lo |-> ll.lo]

\* Math.floor((v / 4294967296) * n) for a word v and a small n: exact in
\* double arithmetic, as v * n < 2^53
FloorScaled(v, n) == ((v.hi * n) + ((v.lo * n) \div H)) \div H

(***************************************************************************)
(* mulberry32.  The closure's `seed` is kept modulo 2^32: the code adds    *)
(* the constant in double arithmetic and only ever reads it through ^, |   *)
(* and >>>, which reduce it modulo 2^32.  `calls` counts the invocations   *)
(* of the closure.  A generator of kind "script" stands for any other      *)
(* callable handed to shuffleWithRng: it returns the words of vals in     *)
(* turn.                                                                   *)
(***************************************************************************)
GOLDEN == [hi |-> 27947, lo |-> 31221]     \* 0x6d2b79f5

\* the generator of the call before, carried on
mulberry32_stale(seed) ==
  IF b.m.rng.kind = "mulberry32"
    THEN [b.m.rng EXCEPT !.calls = 0]
    ELSE [kind |-> "mulberry32", seed |-> ToUint32(seed), vals |-> <<>>, calls |-> 0]

mulberry32(seed) ==
  [kind |-> "mulberry32", seed |-> ToUint32(seed), vals |-> <<>>, calls |-> 0]

scripted(vals) ==
  [kind |-> "script", seed |-> ToUint32(0), vals |-> vals, calls |-> 0]

NoRng == [kind |-> "none", seed |-> ToUint32(0), vals |-> <<>>, calls |-> 0]

\* one call rng(): the word val stands for the double val / 2^32
rngCall(rng) ==
  IF rng.kind = "script"
    THEN [val |-> Head(rng.vals),
          rng |-> [rng EXCEPT !.vals = Tail(@), !.calls = @ + 1]]
    ELSE
      LET s  == AddW(rng.seed, GOLDEN)
          t1 == imul(XorW(s, ShrW(s, 15)), OrW(s, ToUint32(1)))
          t2 == XorW(t1, AddW(t1, imul(XorW(t1, ShrW(t1, 7)), OrW(t1, ToUint32(61)))))
      IN  [val |-> XorW(t2, ShrW(t2, 14)),
           rng |-> [rng EXCEPT !.seed = s, !.calls = @ + 1]]

(***************************************************************************)
(* shuffleWithRng.  arr is the caller's array, out the copy [...arr].      *)
(***************************************************************************)
Swap(seq, p, q) == [seq EXCEPT ![p] = seq[q], ![q] = seq[p]]

shuffleInit(arr, rng) ==
  [arr |-> arr, out |-> arr, i |-> Len(arr) - 1, rng |-> rng]

\* const out = arr: the loop works on the caller's array
shuffleIter_inplace(s) ==
  LET d == rngCall(s.rng)
      j == FloorScaled(d.val, s.i + 1)
  IN  [s EXCEPT !.out = Swap(@, s.i + 1, j + 1),
                !.arr = Swap(@, s.i + 1, j + 1),
                !.i = @ - 1, !.rng = d.rng]

\* out[i] = out[j] without the exchange
shuffleIter_dup(s) ==
  LET d == rngCall(s.rng)
      j == FloorScaled(d.val, s.i + 1)
  IN  [s EXCEPT !.out = [@ EXCEPT ![s.i + 1] = s.out[j + 1]],
                !.i = @ - 1, !.rng = d.rng]

\* lines 32-33: one pass of the loop body, entered with i > 0
shuffleIter(s) ==
  LET d == rngCall(s.rng)
      j == FloorScaled(d.val, s.i + 1)
  IN  [s EXCEPT !.out = Swap(@, s.i + 1, j + 1), !.i = @ - 1, !.rng = d.rng]

RECURSIVE shuffleLoop(_)
shuffleLoop(s) == IF s.i > 0 THEN shuffleLoop(shuffleIter(s)) ELSE s

\* the whole call: .out is the value returned, .arr the argument afterwards,
\* .rng the generator afterwards
shuffleWithRng(arr, rng) == shuffleLoop(shuffleInit(arr, rng))

NoShuffle == [arr |-> <<>>, out |-> <<>>, i |-> 0, rng |-> NoRng]

(***************************************************************************)
(* buildPuzzle(rows, seed).  rows is a sequence of records                 *)
(* [player_name, event_name, year, score_to_par]; a bucket (the `events`   *)
(* of a player) is a sequence of positions in rows.                        *)
(***************************************************************************)
Min(x, y) == IF x < y THEN x ELSE y

\* no slice at all
slice0_all(seq, n) == seq

\* Array.prototype.slice(0, n)
slice0(seq, n) == SubSeq(seq, 1, Min(n, Len(seq)))

\* the position of the Map entry with this key, 0 when there is none
RECURSIVE entryOf(_, _, _)
entryOf(byPlayer, name, p) ==
  IF p > Len(byPlayer) THEN 0
  ELSE IF byPlayer[p].player = name THEN p
  ELSE entryOf(byPlayer, name, p + 1)

\* lines 79-83: the Map byPlayer as the sequence of its entries, in
\* insertion order, after the rows from position r on are added
RECURSIVE groupRows(_, _, _)
groupRows(rows, r, byPlayer) ==
  IF r > Len(rows) THEN byPlayer
  ELSE
    LET name == rows[r].player_name
        at   == entryOf(byPlayer, name, 1)
        with == IF at = 0
                  THEN Append(byPlayer, [player |-> name, events |-> <<>>])
                  ELSE byPlayer
        to   == IF at = 0 THEN Len(with) ELSE at
    IN  groupRows(rows, r + 1, [with EXCEPT ![to].events = Append(@, r)])

\* one event short is let through
hasEnough_short(entry) == Len(entry.events) >= CARDS_PER_GOLFER - 1

\* lines 84-86
hasEnough(entry) == Len(entry.events) >= CARDS_PER_GOLFER

\* lines 98-102
cardOf(rows, e) ==
  [event_name |-> rows[e].event_name, year |-> rows[e].year,
   score_to_par |-> rows[e].score_to_par]

cardsOf(rows, picked) == [c \in DOMAIN picked |-> cardOf(rows, picked[c])]

\* exactly GOLFERS_PER_GAME players are too few as well
tooFew_strict(enough) == Len(enough) <= GOLFERS_PER_GAME

\* line 87
tooFew(enough) == Len(enough) < GOLFERS_PER_GAME

NoError == [thrown |-> FALSE, found |-> 0]

\* lines 78-92, up to the first test of the shuffle's loop.  The error
\* stands for `Need at least 4 golfers with 4+ events. Found ${found}.`
buildStart(rows, seed) ==
  LET rng      == mulberry32(seed)
      byPlayer == groupRows(rows, 1, <<>>)
      enough   == SelectSeq(byPlayer, hasEnough)
      failed   == tooFew(enough)
  IN  [pc |-> IF failed THEN "thrown" ELSE "shufflePlayers",
       rows |-> rows, seed |-> seed,
       byPlayer |-> byPlayer, playersWithEnough |-> enough,
       m |-> IF failed THEN [NoShuffle EXCEPT !.rng = rng]
                       ELSE shuffleInit(enough, rng),
       selected |-> <<>>, k |-> 0, hands |-> <<>>, puzzle |-> <<>>,
       error |-> IF failed THEN [thrown |-> TRUE, found |-> Len(enough)]
                           ELSE NoError,
       log |-> <<>>]

\* one pass of the loop of the shuffle in progress; log notes what the draw
\* was for: 0 the players, k the cards of the k-th selected player
buildSwap(s) == [s EXCEPT !.m = shuffleIter(@), !.log = Append(@, s.k)]

\* every hand is dealt from the first player's events
startHand_first(s, k, rng) ==
  [s EXCEPT !.pc = "shuffleCards", !.k = k,
            !.m = shuffleInit(s.selected[1].events, rng)]

\* a generator of its own for every hand
startHand_reseed(s, k, rng) ==
  [s EXCEPT !.pc = "shuffleCards", !.k = k,
            !.m = shuffleInit(s.selected[k].events, mulberry32(s.seed))]

\* line 95, first half: the k-th call of the map callback starts the
\* shuffle of that player's events with the generator as the last shuffle
\* left it
startHand(s, k, rng) ==
  [s EXCEPT !.pc = "shuffleCards", !.k = k,
            !.m = shuffleInit(s.selected[k].events, rng)]

\* lines 92-93, after the loop: shuffled is m.out
selectPlayers(s) ==
  startHand([s EXCEPT !.selected = slice0(s.m.out, GOLFERS_PER_GAME)],
            1, s.m.rng)

\* lines 95-103, after the loop: the hand of the k-th player, then the next
\* player or the return of line 105
takeHand(s) ==
  LET picked == slice0(s.m.out, CARDS_PER_GOLFER)
      done   == [s EXCEPT !.hands = Append(@, picked),
                          !.puzzle = Append(@,
                             [player_name |-> s.selected[s.k].player,
                              cards |-> cardsOf(s.rows, picked)])]
  IN  IF s.k < Len(s.selected)
        THEN startHand(done, s.k + 1, s.m.rng)
        ELSE [done EXCEPT !.pc = "returned"]

buildOver(s) == s.pc \in {"returned", "thrown"}

buildStep(s) ==
  IF s.m.i > 0 THEN buildSwap(s)
  ELSE IF s.pc = "shufflePlayers" THEN selectPlayers(s)
  ELSE takeHand(s)

RECURSIVE buildRun(_)
buildRun(s) == IF buildOver(s) THEN s ELSE buildRun(buildStep(s))

\* the whole call: .error.thrown tells a throw, .puzzle is the value returned
buildPuzzle(rows, seed) == buildRun(buildStart(rows, seed))

(***************************************************************************)
(* parseCSV and loadData.  The text is taken as split already: a header    *)
(* line and the lines after it, each a sequence of cells (the pieces       *)
(* between commas).  A parsed row maps each header name to a string.       *)
(***************************************************************************)
Space == " "

RECURSIVE trimStart(_)
trimStart(str) ==
  IF str # <<>> /\ Head(str) = Space THEN trimStart(Tail(str)) ELSE str

RECURSIVE trimEnd(_)
trimEnd(str) ==
  IF str # <<>> /\ str[Len(str)] = Space
    THEN trimEnd(SubSeq(str, 1, Len(str) - 1))
    ELSE str

\* String.prototype.trim
trim(str) == trimEnd(trimStart(str))

Upper == <<"A", "B", "C", "D", "E", "F", "M", "Q", "T", "U", "W">>
Lower == <<"a", "b", "c", "d", "e", "f", "m", "q", "t", "u", "w">>

lowerChar(ch) ==
  IF \E p \in DOMAIN Upper : Upper[p] = ch
    THEN Lower[CHOOSE p \in DOMAIN Upper : Upper[p] = ch]
    ELSE ch

\* String.prototype.toLowerCase, on the letters the model uses
toLowerCase(str) == [p \in DOMAIN str |-> lowerChar(str[p])]

DigitChars == <<"0", "1", "2", "3", "4", "5", "6", "7", "8", "9">>

isDigit(ch) == \E p \in DOMAIN DigitChars : DigitChars[p] = ch

digitValue(ch) == (CHOOSE p \in DOMAIN DigitChars : DigitChars[p] = ch) - 1

\* the value of the longest prefix of digits, acc the value so far
RECURSIVE digitsValue(_, _)
digitsValue(str, acc) ==
  IF str = <<>> \/ ~isDigit(Head(str)) THEN acc
  ELSE digitsValue(Tail(str), (10 * acc) + digitValue(Head(str)))

\* NaN among the numbers: a value no string of the model parses to
NaN == -2147483647

\* parseInt(str, 10): white space, a sign, then digits; NaN without a digit
parseInt(str) ==
  IF str = UNDEFINED THEN NaN
  ELSE
    LET t    == trimStart(str)
        neg  == t # <<>> /\ Head(t) = "-"
        body == IF t # <<>> /\ Head(t) \in {"-", "+"} THEN Tail(t) ELSE t
    IN  IF body = <<>> \/ ~isDigit(Head(body)) THEN NaN
        ELSE IF neg THEN 0 - digitsValue(body, 0)
        ELSE digitsValue(body, 0)

isNaN(x) == x = NaN

\* line 17
EXCLUDED_POSITIONS ==
  { <<"c", "u", "t">>, <<"w", "d">>, <<"d", "q">>, <<"m", "d", "f">> }

\* r[h] of a parsed row
field(r, h) == IF h \in DOMAIN r THEN r[h] ELSE UNDEFINED

\* x || dflt for a string or undefined x
orElse(x, dflt) == IF x = UNDEFINED \/ x = <<>> THEN dflt ELSE x

\* lines 43-48: one line to a row; vals[j] ?? ''
parseLine(header, cells) ==
  [h \in { header[j] : j \in DOMAIN header } |->
     LET j == CHOOSE q \in DOMAIN header :
                header[q] = h /\ \A q2 \in DOMAIN header : header[q2] = h => q2 <= q
     IN  IF j <= Len(cells) THEN trim(cells[j]) ELSE <<>>]

\* lines 38-50
parseCSV(text) ==
  IF Len(text.lines) < 1 THEN <<>>
  ELSE [p \in DOMAIN text.lines |-> parseLine(text.header, text.lines[p])]

\* line 61
hasScore(r) ==
  field(r, "score_to_par") # <<>> /\ field(r, "score_to_par") # UNDEFINED

\* lines 62-65
notExcluded(r) ==
  toLowerCase(trim(orElse(field(r, "position"), <<>>))) \notin EXCLUDED_POSITIONS

\* lines 66-71
toRecord(r) ==
  [player_name  |-> trim(orElse(field(r, "player_name"), <<>>)),
   event_name   |-> trim(orElse(field(r, "event_name"), <<>>)),
   year         |-> LET y == parseInt(field(r, "year"))
                    IN  IF isNaN(y) \/ y = 0 THEN 0 ELSE y,
   score_to_par |-> parseInt(field(r, "score_to_par"))]

\* line 72
namedAndScored(r) == r.player_name # <<>> /\ ~isNaN(r.score_to_par)

\* MAX_YEAR itself is left out
inYears_open(r) == r.year >= MIN_YEAR /\ r.year < MAX_YEAR

\* line 73
inYears(r) == r.year >= MIN_YEAR /\ r.year <= MAX_YEAR

mapSeq(f(_), seq) == [p \in DOMAIN seq |-> f(seq[p])]

\* lines 59-74: the rows loadData resolves to, from the parsed rows
filterRows(rows) ==
  SelectSeq(
    SelectSeq(
      mapSeq(toRecord, SelectSeq(SelectSeq(rows, hasScore), notExcluded)),
      namedAndScored),
    inYears)

\* lines 52-75, for a response that is ok
loadData(text) == filterRows(parseCSV(text))

(***************************************************************************)
(* The game session: state, the DOM, and the handlers.  Rows and columns   *)
(* of the grid count from 1.  state.picks, an array with holes, is a       *)
(* function whose domain is the set of rows picked.                        *)
(***************************************************************************)
RECURSIVE natString(_)
natString(n) ==
  IF n < 10 THEN <<DigitChars[n + 1]>>
  ELSE Append(natString(n \div 10), DigitChars[(n % 10) + 1])

\* String(n)
toString(n) == IF n < 0 THEN <<"-">> \o natString(0 - n) ELSE natString(n)

\* lines 130-133
formatScore(n) ==
  IF n = 0 THEN <<"E">>
  ELSE IF n > 0 THEN <<"+">> \o toString(n)
  ELSE toString(n)

Dash == <<"--">>

NoPuzzle == <<>>
NoPicks  == <<>>

\* lines 120-124 and 257
newState(seed) == [puzzle |-> NoPuzzle, picks |-> NoPicks, seed |-> seed]

\* the sum of the picks made, rows in order: reduce((a, b) => a + b, 0)
RECURSIVE sumPicks(_, _)
sumPicks(picks, row) ==
  IF row > GOLFERS_PER_GAME THEN 0
  ELSE (IF row \in DOMAIN picks THEN picks[row] ELSE 0) + sumPicks(picks, row + 1)

definedCount(picks) == Cardinality(DOMAIN picks)

\* lines 214-230
updateScorebug(st, d) ==
  [d EXCEPT !.againHidden = definedCount(st.picks) # 4,
            !.scorebugValue = IF definedCount(st.picks) = 0 THEN Dash
                              ELSE formatScore(sumPicks(st.picks, 1))]

\* lines 152-192: the grid of st.puzzle; a card of a row not yet picked
\* gets a click listener that holds its row and its score.  The classes
\* flipped, picked and row-picked, which no code reads, are left out.
renderGrid(st, d) ==
  [d EXCEPT !.grid =
     [kind |-> "grid",
      rows |-> st.puzzle,
      listeners |-> { <<row, col>> \in (DOMAIN st.puzzle) \X (1..CARDS_PER_GOLFER) :
                        row \notin DOMAIN st.picks /\ col \in DOMAIN st.puzzle[row].cards },
      message |-> [what |-> "none", found |-> 0]]]

\* lines 264-267: the catch handler
showError(d, message) ==
  [d EXCEPT !.scorebugValue = Dash,
            !.grid = [kind |-> "error", rows |-> <<>>, listeners |-> {},
                      message |-> message]]

\* lines 232-238
showResults(st, d) ==
  [d EXCEPT !.finalTotal = formatScore(sumPicks(st.picks, 1)),
            !.modalHidden = FALSE]

\* lines 240-242
closeResultsModal(d) == [d EXCEPT !.modalHidden = TRUE]

\* picks with picks[row] = score
withPick(picks, row, score) ==
  [r \in DOMAIN picks \cup {row} |-> IF r = row THEN score ELSE picks[r]]

\* showResults() one pick early
pickCard_early(st, d, row, score) ==
  LET st2 == [st EXCEPT !.picks = withPick(@, row, score)]
      d2  == updateScorebug(st2, d)
  IN  [state |-> st2,
       dom |-> IF definedCount(st2.picks) >= 3 THEN showResults(st2, d2) ELSE d2]

\* lines 200-212, past the return of line 201: the pair of the state and
\* the DOM afterwards
pickCard(st, d, row, score) ==
  LET st2 == [st EXCEPT !.picks = withPick(@, row, score)]
      d2  == updateScorebug(st2, d)
  IN  [state |-> st2,
       dom |-> IF definedCount(st2.picks) = 4 THEN showResults(st2, d2) ELSE d2]

\* lines 259-263: the then handler, built being what buildPuzzle(rows,
\* seed) came to; its throw goes to the catch handler
thenHandler(st, d, built) ==
  IF built.error.thrown
    THEN [state |-> st,
          dom |-> showError(d, [what |-> "need", found |-> built.error.found])]
    ELSE LET st2 == [st EXCEPT !.puzzle = built.puzzle]
         IN  [state |-> st2, dom |-> renderGrid(st2, updateScorebug(st2, d))]

(***************************************************************************)
(* Specification SpecShuffle: one call shuffleWithRng(arg, rng) on every   *)
(* array of at most MaxShuffleLen elements, with every script of draws.    *)
(***************************************************************************)
Elems == {"a", "b", "c"}

\* draws 0, 1/4, 1/2, 3/4 and (2^32 - 1) / 2^32: with them
\* Math.floor(rng() * (i + 1)) takes every value of 0..i for i < 5
DrawSamples ==
  { [hi |-> 0, lo |-> 0], [hi |-> 16384, lo |-> 0], [hi |-> 32768, lo |-> 0],
    [hi |-> 49152, lo |-> 0], [hi |-> H - 1, lo |-> H - 1] }

SeqsUpTo(S, n) == UNION { [1..k -> S] : k \in 0..n }

Idle == [pc |-> "idle"]

ShuffleInit ==
  /\ \E arr \in SeqsUpTo(Elems, MaxShuffleLen) :
       \E vals \in [1..(IF Len(arr) > 0 THEN Len(arr) - 1 ELSE 0) -> DrawSamples] :
         sh = [pc |-> "loop", arg |-> arr, m |-> shuffleInit(arr, scripted(vals)),
               ret |-> <<>>]
  /\ b = Idle /\ hist = <<>> /\ ld = Idle
  /\ state = Idle /\ loads = {} /\ dom = Idle /\ clock = 0

\* lines 31-34: one pass of the for loop
ShuffleStep ==
  /\ sh.pc = "loop" /\ sh.m.i > 0
  /\ sh' = [sh EXCEPT !.m = shuffleIter(@)]
  /\ UNCHANGED <<buildVars, loadVars, gameVars>>

\* line 35: return out
ShuffleReturn ==
  /\ sh.pc = "loop" /\ sh.m.i <= 0
  /\ sh' = [sh EXCEPT !.pc = "returned", !.ret = sh.m.out]
  /\ UNCHANGED <<buildVars, loadVars, gameVars>>

ShuffleNext == ShuffleStep \/ ShuffleReturn

SpecShuffle == ShuffleInit /\ [][ShuffleNext]_vars

Count(seq, e) == Cardinality({ p \in DOMAIN seq : seq[p] = e })

IsPermutation(s1, s2) ==
  /\ Len(s1) = Len(s2)
  /\ \A p \in DOMAIN s1 : Count(s1, s1[p]) = Count(s2, s1[p])

\* C6: shuffleWithRng returns a permutation of its argument (same length,
\* same number of occurrences of every element), whatever the draws, and the
\* argument array holds the same elements in the same order during and after
\* the call.
C6_ShufflePermutes ==
  /\ sh.pc \in {"loop", "returned"} => sh.m.arr = sh.arg
  /\ sh.pc = "returned" => IsPermutation(sh.ret, sh.arg)

\* a call on at least three elements that returned them in another order
C6_Witness ==
  /\ sh.pc = "returned"
  /\ Len(sh.arg) >= 3
  /\ sh.ret # sh.arg
  /\ sh.m.rng.calls = Len(sh.arg) - 1

(***************************************************************************)
(* Specification SpecBuild: buildPuzzle called up to MaxCalls times on one *)
(* list of rows, a loop pass at a time.  The rows hold 3..MaxPlayers       *)
(* players with one row less than, as many as, or one more than            *)
(* CARDS_PER_GOLFER each, a player's rows adjacent or dealt round-robin.   *)
(* Rows k and k + 3 of a player have equal fields.                         *)
(***************************************************************************)
Digit == <<"1", "2", "3", "4", "5", "6", "7", "8", "9">>

nameOf(p) == <<"P", Digit[p]>>

rowOf(p, k) ==
  [player_name |-> nameOf(p), event_name |-> <<"E", Digit[(k % 3) + 1]>>,
   year |-> MIN_YEAR + (k % 3), score_to_par |-> (p + (2 * (k % 3))) - 5]

RECURSIVE grouped(_, _)
grouped(sizes, p) ==
  IF p > Len(sizes) THEN <<>>
  ELSE [k \in 1..sizes[p] |-> rowOf(p, k)] \o grouped(sizes, p + 1)

RECURSIVE dealt(_, _, _)
dealt(sizes, p, k) ==
  IF k > CARDS_PER_GOLFER + 1 THEN <<>>
  ELSE IF p > Len(sizes) THEN dealt(sizes, 1, k + 1)
  ELSE (IF k <= sizes[p] THEN <<rowOf(p, k)>> ELSE <<>>) \o dealt(sizes, p + 1, k)

BucketSizes == {CARDS_PER_GOLFER - 1, CARDS_PER_GOLFER, CARDS_PER_GOLFER + 1}

InputRows ==
  UNION { {grouped(sizes, 1), dealt(sizes, 1, 1)} :
            sizes \in UNION { [1..n -> BucketSizes] : n \in 3..MaxPlayers } }

Seeds == {42, 1234}

\* no call yet
buildIdle(rows) ==
  [pc |-> "idle", rows |-> rows, seed |-> 0,
   byPlayer |-> <<>>, playersWithEnough |-> <<>>, m |-> NoShuffle,
   selected |-> <<>>, k |-> 0, hands |-> <<>>, puzzle |-> <<>>,
   error |-> NoError, log |-> <<>>]

BuildInit ==
  /\ \E rows \in InputRows : b = buildIdle(rows)
  /\ hist = <<>>
  /\ sh = Idle /\ ld = Idle
  /\ state = Idle /\ loads = {} /\ dom = Idle /\ clock = 0

outcomeOf(s) == [seed |-> s.seed, error |-> s.error, puzzle |-> s.puzzle]

\* the call moves on to s; a call that is over is noted in hist
Finish(s) ==
  /\ b' = s
  /\ hist' = IF buildOver(s) THEN Append(hist, outcomeOf(s)) ELSE hist

\* buildPuzzle(rows, seed) is entered: lines 78-92, with the throw of
\* lines 88-90
BuildCall ==
  /\ b.pc \in {"idle", "returned", "thrown"}
  /\ Len(hist) < MaxCalls
  /\ \E seed \in Seeds : Finish(buildStart(b.rows, seed))
  /\ UNCHANGED <<shuffleVars, loadVars, gameVars>>

PlayerSwap ==
  /\ b.pc = "shufflePlayers" /\ b.m.i > 0
  /\ Finish(buildSwap(b))
  /\ UNCHANGED <<shuffleVars, loadVars, gameVars>>

SelectPlayers ==
  /\ b.pc = "shufflePlayers" /\ b.m.i <= 0
  /\ Finish(selectPlayers(b))
  /\ UNCHANGED <<shuffleVars, loadVars, gameVars>>

CardSwap ==
  /\ b.pc = "shuffleCards" /\ b.m.i > 0
  /\ Finish(buildSwap(b))
  /\ UNCHANGED <<shuffleVars, loadVars, gameVars>>

TakeHand ==
  /\ b.pc = "shuffleCards" /\ b.m.i <= 0
  /\ Finish(takeHand(b))
  /\ UNCHANGED <<shuffleVars, loadVars, gameVars>>

BuildNext == BuildCall \/ PlayerSwap \/ SelectPlayers \/ CardSwap \/ TakeHand

SpecBuild == BuildInit /\ [][BuildNext]_vars

\* what the claims say of the rows handed to buildPuzzle
RowsOf(rows, name) == { r \in DOMAIN rows : rows[r].player_name = name }

NamesIn(rows) == { rows[r].player_name : r \in DOMAIN rows }

Qualifying(rows) ==
  { name \in NamesIn(rows) : Cardinality(RowsOf(rows, name)) >= CARDS_PER_GOLFER }

Returned == b.pc = "returned"

\* C1: two calls of buildPuzzle on the same rows with the same seed end the
\* same way: the same throw, or puzzles with the same players in the same
\* order holding the same cards in the same order, whatever was called
\* between them.
C1_Deterministic ==
  \A x \in DOMAIN hist : \A y \in DOMAIN hist :
    hist[x].seed = hist[y].seed => hist[x] = hist[y]

\* two calls with one seed that both returned a puzzle
C1_Witness ==
  /\ Len(hist) >= 2
  /\ hist[1].seed = hist[2].seed
  /\ ~hist[2].error.thrown
  /\ Len(hist[2].puzzle) = GOLFERS_PER_GAME

\* C2: a puzzle that buildPuzzle returns has exactly GOLFERS_PER_GAME
\* entries of exactly CARDS_PER_GOLFER cards each.
C2_Cardinality ==
  Returned =>
    /\ Len(b.puzzle) = GOLFERS_PER_GAME
    /\ \A k \in DOMAIN b.puzzle : Len(b.puzzle[k].cards) = CARDS_PER_GOLFER

\* a puzzle returned from more qualifying players than are selected, with a
\* selected player who has more rows than cards are dealt
C2_Witness ==
  /\ Returned
  /\ Cardinality(Qualifying(b.rows)) > GOLFERS_PER_GAME
  /\ \E k \in DOMAIN b.puzzle :
       Cardinality(RowsOf(b.rows, b.puzzle[k].player_name)) > CARDS_PER_GOLFER

\* C3: the player_name values of a returned puzzle are pairwise distinct.
C3_NoRepeatedPlayer ==
  Returned =>
    \A k \in DOMAIN b.puzzle : \A l \in DOMAIN b.puzzle :
      b.puzzle[k].player_name = b.puzzle[l].player_name => k = l

\* a puzzle from rows in which no selected player's rows are adjacent
C3_Witness ==
  /\ Returned
  /\ Len(b.puzzle) = GOLFERS_PER_GAME
  /\ \A k \in DOMAIN b.puzzle :
       \A r \in RowsOf(b.rows, b.puzzle[k].player_name) :
         (r + 1) \notin RowsOf(b.rows, b.puzzle[k].player_name)

\* C4: every player of a returned puzzle has at least CARDS_PER_GOLFER rows
\* among the rows passed in.
C4_Qualification ==
  Returned =>
    \A k \in DOMAIN b.puzzle : b.puzzle[k].player_name \in Qualifying(b.rows)

\* a puzzle returned from rows that also hold a player with fewer rows
C4_Witness ==
  /\ Returned
  /\ Len(b.puzzle) = GOLFERS_PER_GAME
  /\ NamesIn(b.rows) # Qualifying(b.rows)

\* buildPuzzle throws exactly when fewer than GOLFERS_PER_GAME players have
\* CARDS_PER_GOLFER rows, and then returns no puzzle (SpecBuild's side of C5)
BuildThrowsIffFew ==
  b.pc \in {"returned", "thrown"} =>
    /\ b.error.thrown <=> Cardinality(Qualifying(b.rows)) < GOLFERS_PER_GAME
    /\ b.error.thrown <=> b.pc = "thrown"
    /\ b.error.thrown => b.puzzle = <<>>
                          /\ b.error.found = Cardinality(Qualifying(b.rows))

\* C7: the cards of every entry of a returned puzzle are the event_name,
\* year and score_to_par of CARDS_PER_GOLFER rows at distinct positions of
\* the input, all of them rows of the entry's player: the first
\* CARDS_PER_GOLFER of the shuffled bucket.
C7_HandProvenance ==
  Returned =>
    /\ Len(b.hands) = Len(b.puzzle)
    /\ \A k \in DOMAIN b.puzzle :
         LET hand == b.hands[k]
         IN  /\ Len(hand) = CARDS_PER_GOLFER
             /\ \A c \in DOMAIN hand : \A d \in DOMAIN hand :
                  hand[c] = hand[d] => c = d
             /\ \A c \in DOMAIN hand :
                  /\ hand[c] \in RowsOf(b.rows, b.puzzle[k].player_name)
                  /\ b.puzzle[k].cards[c] =
                       [event_name |-> b.rows[hand[c]].event_name,
                        year |-> b.rows[hand[c]].year,
                        score_to_par |-> b.rows[hand[c]].score_to_par]

\* a puzzle with a hand of two equal cards, dealt from two rows
C7_Witness ==
  /\ Returned
  /\ \E k \in DOMAIN b.puzzle :
       \E c \in 1..CARDS_PER_GOLFER : \E d \in 1..CARDS_PER_GOLFER :
         c # d /\ b.puzzle[k].cards[c] = b.puzzle[k].cards[d]

Tagged(log, k) == Cardinality({ p \in DOMAIN log : log[p] = k })

RECURSIVE SumSpare(_, _, _)
SumSpare(rows, puzzle, k) ==
  IF k > Len(puzzle) THEN 0
  ELSE (Cardinality(RowsOf(rows, puzzle[k].player_name)) - 1)
         + SumSpare(rows, puzzle, k + 1)

\* C10: one generator serves the whole call and is never made anew (its
\* count of calls is the number of draws so far); the player shuffle takes
\* one draw less than there are qualifying players, all before any draw of
\* a hand; the hands are dealt in the order of the selected players, each
\* with one draw less than the player has rows; a call that returns has
\* taken (P - 1) + the sum of (rows - 1) over the selected players, and a
\* call that throws none.
C10_DrawOrder ==
  LET P == Cardinality(Qualifying(b.rows))
  IN  /\ b.pc # "idle" => b.m.rng.calls = Len(b.log)
      /\ b.pc = "thrown" => b.log = <<>>
      /\ b.pc \in {"shufflePlayers", "shuffleCards", "returned"} =>
           /\ \A p \in DOMAIN b.log : \A q \in DOMAIN b.log :
                p < q => b.log[p] <= b.log[q]
           /\ Tagged(b.log, 0) = (IF b.pc = "shufflePlayers"
                                    THEN (P - 1) - b.m.i ELSE P - 1)
           /\ \A k \in DOMAIN b.selected :
                Tagged(b.log, k) =
                  LET n == Cardinality(RowsOf(b.rows, b.selected[k].player))
                  IN  IF b.pc = "returned" \/ k < b.k THEN n - 1
                      ELSE IF k = b.k THEN (n - 1) - b.m.i
                      ELSE 0
      /\ Returned => Len(b.log) = (P - 1) + SumSpare(b.rows, b.puzzle, 1)

\* a call that returned after the draws of five players and of hands of
\* different sizes
C10_Witness ==
  /\ Returned
  /\ Cardinality(Qualifying(b.rows)) = GOLFERS_PER_GAME + 1
  /\ \E k \in DOMAIN b.puzzle : \E l \in DOMAIN b.puzzle :
       Cardinality(RowsOf(b.rows, b.puzzle[k].player_name))
         # Cardinality(RowsOf(b.rows, b.puzzle[l].player_name))
  /\ b.m.rng.calls > (GOLFERS_PER_GAME * (CARDS_PER_GOLFER - 1)) + GOLFERS_PER_GAME

(***************************************************************************)
(* Specification SpecLoad: loadData on a CSV text of at most MaxCsvRows    *)
(* lines.  One line is any combination of the sample cells, the others     *)
(* come from a short list; the header has the position column or not.      *)
(***************************************************************************)
FullHeader == <<"player_name", "event_name", "year", "score_to_par", "position">>
ShortHeader == <<"player_name", "event_name", "year", "score_to_par">>

NameCells  == { <<>>, <<"A">>, <<" ", "B", " ">> }
EventCells == { <<>>, <<"E">> }
YearCells  == { <<>>, <<"2", "0", "1", "9">>, <<"2", "0", "2", "0">>,
                <<"2", "0", "2", "5">>, <<"2", "0", "2", "6">> }
ScoreCells == { <<>>, <<"x">>, <<"-", "3">>, <<"4", "x">>, <<"0">> }
PosCells   == { <<>>, <<"T", "5">>, <<"C", "U", "T">>, <<"w", "d">>,
                <<"D", "q">>, <<"M", "D", "F">> }

SampleLines ==
  { <<n, e, y, sc, pos>> : n \in NameCells, e \in EventCells, y \in YearCells,
                           sc \in ScoreCells, pos \in PosCells }

ShortLines ==
  { <<<<"B">>, <<"F">>, <<"2", "0", "2", "5">>, <<"4">>, <<>>>>,
    <<<<"A">>, <<"E">>, <<"2", "0", "2", "1">>, <<"1">>, <<"C", "U", "T">>>> }

\* line `line` at position p of k lines, the lines of rest elsewhere
linesWith(k, p, line, rest) == [q \in 1..k |-> IF q = p THEN line ELSE rest[q]]

fetching(header, lines) ==
  [pc |-> "fetching", text |-> [header |-> header, lines |-> lines], rows |-> <<>>]

LoadInit ==
  /\ \E header \in {FullHeader, ShortHeader} :
       \/ ld = fetching(header, <<>>)
       \/ \E k \in 1..MaxCsvRows : \E p \in 1..k :
            \E line \in SampleLines : \E rest \in [1..k -> ShortLines] :
              ld = fetching(header, linesWith(k, p, line, rest))
  /\ sh = Idle /\ b = Idle /\ hist = <<>>
  /\ state = Idle /\ loads = {} /\ dom = Idle /\ clock = 0

\* lines 53-74: the response is ok, the promise resolves to the rows
LoadResolves ==
  /\ ld.pc = "fetching"
  /\ ld' = [ld EXCEPT !.pc = "resolved", !.rows = loadData(ld.text)]
  /\ UNCHANGED <<shuffleVars, buildVars, gameVars>>

\* line 55: the response is not ok, the promise rejects
LoadRejects ==
  /\ ld.pc = "fetching"
  /\ ld' = [ld EXCEPT !.pc = "rejected"]
  /\ UNCHANGED <<shuffleVars, buildVars, gameVars>>

LoadNext == LoadResolves \/ LoadRejects

SpecLoad == LoadInit /\ [][LoadNext]_vars

\* what the claims say of a parsed row
ScoreNumeric(r) ==
  /\ field(r, "score_to_par") \notin {<<>>, UNDEFINED}
  /\ parseInt(field(r, "score_to_par")) # NaN

PositionCounts(r) ==
  LET pos == IF field(r, "position") = UNDEFINED THEN <<>> ELSE field(r, "position")
  IN  toLowerCase(trim(pos)) \notin
        { <<"c", "u", "t">>, <<"w", "d">>, <<"d", "q">>, <<"m", "d", "f">> }

YearCounts(r) ==
  /\ parseInt(field(r, "year")) # NaN
  /\ parseInt(field(r, "year")) \in MIN_YEAR..MAX_YEAR

Named(r) == trim(field(r, "player_name")) # <<>>

KeptAsClaimed(r) == ScoreNumeric(r) /\ PositionCounts(r) /\ YearCounts(r)

KeptInFact(r) == KeptAsClaimed(r) /\ Named(r)

C9_RecordsWellFormed ==
  ld.pc = "resolved" =>
    \A p \in DOMAIN ld.rows :
      /\ ld.rows[p].score_to_par \in Int
      /\ ld.rows[p].score_to_par # NaN
      /\ ld.rows[p].player_name # <<>>
      /\ ld.rows[p].event_name # <<>>

(***************************************************************************)
(* Specification Spec: the page.  ld holds the CSV file the server has;    *)
(* Init is the state when the script has run to its end, the first         *)
(* initGame() of line 270 done.  The results modal and the scorebug's      *)
(* play-again button start hidden.                                         *)
(***************************************************************************)
\* the k-th result of player p in the file: two scores a player
resultOf(p, k) ==
  [player_name |-> nameOf(p), event_name |-> <<"E", Digit[k]>>,
   year |-> MIN_YEAR + k, score_to_par |-> (2 * p) + (k % 2) - 6]

lineOf(row, pos) ==
  <<row.player_name, row.event_name, toString(row.year),
    toString(row.score_to_par), pos>>

RECURSIVE linesOf(_, _, _)
linesOf(sizes, p, cut) ==
  IF p > Len(sizes) THEN <<>>
  ELSE [k \in 1..sizes[p] |->
          lineOf(resultOf(p, k), IF p = 1 /\ k = cut THEN <<"C", "U", "T">>
                                                    ELSE <<"T", "5">>)]
         \o linesOf(sizes, p + 1, cut)

\* the file with these numbers of results of players 1, 2, ..., every one
\* a finish T5 but result `cut` of player 1, a missed cut
fileOf(sizes, cut) == [header |-> FullHeader, lines |-> linesOf(sizes, 1, cut)]

GameFiles ==
  { fileOf(<<4, 5, 4, 3, 4>>, 0), fileOf(<<4, 4, 4, 3>>, 0),
    fileOf(<<4, 4, 4, 4>>, 1), [header |-> FullHeader, lines |-> <<>>] }

\* Date.now() at the calls of initGame: the first is 1, a later one the
\* time of the call before or one more
Times == 1..MaxGames

\* loadData on each file, tabulated
rowsFrom == [text \in GameFiles |-> loadData(text)]

\* buildPuzzle(rows, seed) on the rows of each file, for each seed, tabulated
builtFrom ==
  [text \in GameFiles |-> [seed \in Times |-> buildPuzzle(rowsFrom[text], seed)]]

BlankDom ==
  [grid |-> [kind |-> "blank", rows |-> <<>>, listeners |-> {},
             message |-> [what |-> "none", found |-> 0]],
   scorebugValue |-> Dash, againHidden |-> TRUE,
   modalHidden |-> TRUE, finalTotal |-> <<>>]

Init ==
  /\ \E text \in GameFiles : ld = [pc |-> "served", text |-> text, rows |-> <<>>]
  /\ clock = [now |-> 1, games |-> 1]
  /\ state = newState(1)
  /\ loads = {[id |-> 1, seed |-> 1]}
  /\ dom = BlankDom
  /\ sh = Idle /\ b = Idle /\ hist = <<>>

\* lines 255-258 of initGame, at a time Date.now() of now or later
initGame(seed) ==
  /\ clock' = [now |-> seed, games |-> clock.games + 1]
  /\ state' = newState(seed)
  /\ loads' = loads \cup {[id |-> clock.games + 1, seed |-> seed]}

\* lines 247-250: a click on a play-again button that shows
HandlePlayAgain ==
  /\ ~dom.modalHidden \/ ~dom.againHidden
  /\ clock.games < MaxGames
  /\ \E seed \in {clock.now, clock.now + 1} : initGame(seed)
  /\ dom' = closeResultsModal(dom)
  /\ UNCHANGED <<shuffleVars, buildVars, loadVars>>

\* lines 259-263: a load resolves and the then handler runs
LoadResolved ==
  /\ \E l \in loads :
       LET after == thenHandler(state, dom, builtFrom[ld.text][l.seed])
       IN  /\ loads' = loads \ {l}
           /\ state' = after.state
           /\ dom' = after.dom
  /\ UNCHANGED <<clock, shuffleVars, buildVars, loadVars>>

\* lines 55 and 264-267: the response is not ok and the catch handler runs
LoadFailed ==
  /\ \E l \in loads :
       /\ loads' = loads \ {l}
       /\ dom' = showError(dom, [what |-> "fetch", found |-> 0])
  /\ UNCHANGED <<state, clock, shuffleVars, buildVars, loadVars>>

\* the click handler without the return of line 201
PickCard_unguarded ==
  /\ \E li \in dom.grid.listeners :
       LET row   == li[1]
           score == dom.grid.rows[row].cards[li[2]].score_to_par
           after == pickCard(state, dom, row, score)
       IN  state' = after.state /\ dom' = after.dom
  /\ UNCHANGED <<loads, clock, shuffleVars, buildVars, loadVars>>

\* line 185: a click on a card that has a listener
PickCard ==
  /\ \E li \in dom.grid.listeners :
       LET row   == li[1]
           score == dom.grid.rows[row].cards[li[2]].score_to_par
           after == pickCard(state, dom, row, score)
       IN  IF row \in DOMAIN state.picks
             THEN UNCHANGED <<state, dom>>
             ELSE state' = after.state /\ dom' = after.dom
  /\ UNCHANGED <<loads, clock, shuffleVars, buildVars, loadVars>>

\* lines 244-245: a click on the modal's close button or backdrop
CloseResultsModal ==
  /\ ~dom.modalHidden
  /\ dom' = closeResultsModal(dom)
  /\ UNCHANGED <<state, loads, clock, shuffleVars, buildVars, loadVars>>

Next ==
  \/ HandlePlayAgain
  \/ LoadResolved
  \/ LoadFailed
  \/ PickCard
  \/ CloseResultsModal

Spec == Init /\ [][Next]_vars

Settled == loads' # loads /\ loads' \subseteq loads

\* C5: a load that resolves ends in buildPuzzle's error exactly when fewer
\* than GOLFERS_PER_GAME players have CARDS_PER_GOLFER rows or more among
\* the rows loadData hands on; then state is left as it was (no puzzle is
\* assigned) and the grid holds the error message with the number found and
\* no row; otherwise a puzzle is assigned and the grid shows it.
C5_FailureBoundary ==
  [][ (Settled /\ dom'.grid.message.what # "fetch") =>
        LET found == Cardinality(Qualifying(rowsFrom[ld.text]))
        IN  IF found < GOLFERS_PER_GAME
              THEN /\ state' = state
                   /\ dom'.grid = [kind |-> "error", rows |-> <<>>, listeners |-> {},
                                   message |-> [what |-> "need", found |-> found]]
              ELSE /\ dom'.grid.kind = "grid"
                   /\ Len(state'.puzzle) = GOLFERS_PER_GAME
                   /\ dom'.grid.rows = state'.puzzle ]_vars

\* the first load resolved on a file of three players with enough rows and a
\* fourth with too few: the error is shown and no puzzle is held
C5_Witness ==
  /\ loads = {}
  /\ Cardinality(NamesIn(rowsFrom[ld.text])) = GOLFERS_PER_GAME
  /\ dom.grid.kind = "error"
  /\ dom.grid.message = [what |-> "need", found |-> GOLFERS_PER_GAME - 1]
  /\ state.puzzle = NoPuzzle

\* a step in which initGame ran: a new session begins
NewSession == clock'.games # clock.games

\* C11: within one session (no initGame in between), a pick recorded for a
\* row stays as it is: every later step, a click on any card of that row
\* included, leaves the row picked with the same value.
C11_PickLockIn ==
  [][ ~NewSession =>
        \A row \in DOMAIN state.picks :
          /\ row \in DOMAIN state'.picks
          /\ state'.picks[row] = state.picks[row] ]_vars

\* a row is picked and another card of that row, of another score, still
\* has its click listener: a click on it calls pickCard for the picked row
C11_Witness ==
  \E li \in dom.grid.listeners :
    /\ li[1] \in DOMAIN state.picks
    /\ state.puzzle # NoPuzzle
    /\ dom.grid.rows = state.puzzle
    /\ dom.grid.rows[li[1]].cards[li[2]].score_to_par # state.picks[li[1]]

\* a step of pickCard that recorded a pick
PickRecorded == state'.picks # state.picks /\ state'.picks # NoPicks

\* the four picks added up, row by row
SumOfFour(picks) == picks[1] + picks[2] + picks[3] + picks[4]

\* C12: the results are on show only with all GOLFERS_PER_GAME rows picked;
\* the pick that makes the number of picked rows 4 puts them on show with
\* the total formatScore(sum of the 4 picks, one a row), and a pick that
\* leaves fewer than 4 rows picked shows nothing and leaves the total alone.
C12_SessionCompletion ==
  /\ [](~dom.modalHidden => DOMAIN state.picks = 1..GOLFERS_PER_GAME)
  /\ [][ PickRecorded =>
           IF definedCount(state'.picks) = 4
             THEN /\ definedCount(state.picks) = 3
                  /\ dom.modalHidden /\ ~dom'.modalHidden
                  /\ DOMAIN state'.picks = 1..GOLFERS_PER_GAME
                  /\ dom'.finalTotal = formatScore(SumOfFour(state'.picks))
             ELSE /\ definedCount(state'.picks) < 4
                  /\ dom.modalHidden /\ dom'.modalHidden
                  /\ dom'.finalTotal = dom.finalTotal ]_vars

\* a session of the second game finished: the results on show with a total
\* that is not even par, over four picks that are not all alike
C12_Witness ==
  /\ clock.games >= 2
  /\ ~dom.modalHidden
  /\ DOMAIN state.picks = 1..GOLFERS_PER_GAME
  /\ state.puzzle # NoPuzzle
  /\ dom.finalTotal = formatScore(SumOfFour(state.picks))
  /\ dom.finalTotal # <<"E">>
  /\ state.picks[1] # state.picks[2]

\* C13: whenever state.puzzle is not null it is the puzzle buildPuzzle makes
\* of the loaded rows with the current state.seed, so a load begun by an
\* earlier initGame never puts its puzzle into a later initGame's state.
C13_PuzzleOfSeed ==
  state.puzzle # NoPuzzle =>
    state.puzzle = builtFrom[ld.text][state.seed].puzzle

\* C14: every pick made is the score_to_par of some card in its row of the
\* puzzle held.
C14_PicksOfPuzzle ==
  \A row \in DOMAIN state.picks :
    /\ state.puzzle # NoPuzzle
    /\ \E col \in DOMAIN state.puzzle[row].cards :
         state.puzzle[row].cards[col].score_to_par = state.picks[row]

=============================================================================
